---- MODULE Spec2Model ----
(***************************************************************************)
(* Model of the WorkoutPlanner class of src/app.js: the exercise catalog   *)
(* (this.workouts), the weekly schedule (this.schedule), the progress log  *)
(* (this.progress), the workout session shown in the modal, and the        *)
(* document kept under the localStorage key 'workoutPlannerData'.          *)
(*                                                                         *)
(* An exercise name is a sequence of tokens; the token " " is a run of     *)
(* whitespace, every other token a run of non-whitespace characters.       *)
(* The date field of a workout record (new Date().toISOString(), line 296) *)
(* is written once and read only by renderProgress; it is left out.        *)
(***************************************************************************)
EXTENDS Integers, Sequences, FiniteSets, TLC

VARIABLES workouts, schedule, progress,
          currentWorkoutDay, currentWorkoutData, modalSets,
          storage, lastOp

vars == <<workouts, schedule, progress,
          currentWorkoutDay, currentWorkoutData, modalSets,
          storage, lastOp>>

mem == <<workouts, schedule, progress>>
session == <<currentWorkoutDay, currentWorkoutData, modalSets>>

----------------------------------------------------------------------------
(* Bounds of the exploration *)

\* add is explored while the category holds fewer than MaxLen names,
\* randomize on lists of at most MaxLen names
MaxLen == 2
\* a sets-<i> container is explored up to MaxSets rows
MaxSets == 1
\* complete is explored until the log holds MaxProgress records
MaxProgress == 2

----------------------------------------------------------------------------
(* Fixed tables *)

Types == {"push", "pull", "legs"}
DayOrder == <<"monday", "tuesday", "wednesday", "thursday", "friday", "saturday">>
Days == {DayOrder[i] : i \in 1..Len(DayOrder)}

getDayType(day) ==
    CASE day = "monday" -> "push"
      [] day = "tuesday" -> "pull"
      [] day = "wednesday" -> "legs"
      [] day = "thursday" -> "push"
      [] day = "friday" -> "pull"
      [] day = "saturday" -> "legs"

EmptyWorkouts == [t \in Types |-> <<>>]
EmptySchedule == [d \in Days |-> <<>>]

DefaultWorkouts ==
    [t \in Types |->
        CASE t = "push" -> << <<"Bench", " ", "Press">>,
                              <<"Overhead", " ", "Press">>,
                              <<"Incline", " ", "Dumbbell", " ", "Press">>,
                              <<"Lateral", " ", "Raises">>,
                              <<"Tricep", " ", "Dips">> >>
          [] t = "pull" -> << <<"Pull-ups">>,
                              <<"Barbell", " ", "Rows">>,
                              <<"Cable", " ", "Rows">>,
                              <<"Face", " ", "Pulls">>,
                              <<"Barbell", " ", "Curls">> >>
          [] t = "legs" -> << <<"Squats">>,
                              <<"Romanian", " ", "Deadlifts">>,
                              <<"Leg", " ", "Press">>,
                              <<"Leg", " ", "Curls">>,
                              <<"Calf", " ", "Raises">> >>]

\* null / undefined of currentWorkoutDay and currentWorkoutData
NoDay == "null"
NoData == <<>>

----------------------------------------------------------------------------
(* Inputs *)

\* what the exercise input box can hold when Add is pressed
RawNames == { <<>>, <<" ">>, <<"a">>, <<" ", "a", " ">>, <<"b">>, <<"b", " ">> }

\* the categories whose Add and Delete buttons are explored
EditTypes == {"push"}

\* the index handed to removeExercise
RemoveIndexes == -1..(MaxLen + 1)

\* an <input type="number"> holds nothing (<<>>) or a number (<<n>>); the
\* two inputs of a row as the user leaves them
RawRows == { [weight |-> <<>>, reps |-> <<>>],
             [weight |-> <<5>>, reps |-> <<0>>],
             [weight |-> <<>>, reps |-> <<-1>>],
             [weight |-> <<5>>, reps |-> <<3>>] }

----------------------------------------------------------------------------
(* Arrays and strings *)

Min(a, b) == IF a < b THEN a ELSE b
Max(a, b) == IF a > b THEN a ELSE b

\* indexOf(x) > 0 taken for "found": misses a match at index 0
IncludesAfterFirst(list, x) == \E i \in 2..Len(list) : list[i] = x

\* Array.prototype.includes
Includes(list, x) == \E i \in 1..Len(list) : list[i] = x

RECURSIVE TrimStart(_)
TrimStart(s) == IF s # <<>> /\ Head(s) = " " THEN TrimStart(Tail(s)) ELSE s

RECURSIVE TrimEnd(_)
TrimEnd(s) ==
    IF s # <<>> /\ s[Len(s)] = " " THEN TrimEnd(SubSeq(s, 1, Len(s) - 1)) ELSE s

\* trimStart in place of trim
TrimStartOnly(s) == TrimStart(s)

\* String.prototype.trim
Trim(s) == TrimEnd(TrimStart(s))

\* list.splice(index, 1), index 0-based as in the source: a negative index
\* counts from the end (clamped at 0), an index past the end removes nothing
Splice1(list, index) ==
    LET len == Len(list)
        start == IF index < 0 THEN Max(len + index, 0) ELSE Min(index, len)
        count == Min(1, len - start)
    IN  SubSeq(list, 1, start) \o SubSeq(list, start + count + 1, len)

----------------------------------------------------------------------------
(* Schedule reconciler *)

\* isScheduleValid without the comparison of the lengths
isScheduleValidNoLength(scheduleExercises, availableExercises) ==
    \A i \in 1..Len(scheduleExercises) :
        Includes(availableExercises, scheduleExercises[i])

\* isScheduleValid: every scheduled name is still in the catalog list, and
\* the two lists have the same length
isScheduleValid(scheduleExercises, availableExercises) ==
    /\ \A i \in 1..Len(scheduleExercises) :
            Includes(availableExercises, scheduleExercises[i])
    /\ Len(scheduleExercises) = Len(availableExercises)

\* every day is overwritten, valid or not
updateScheduleAlways(w, s) == [day \in Days |-> w[getDayType(day)]]

\* updateSchedule: every day that is empty or not valid becomes a copy of
\* its category's list; w and s are this.workouts and this.schedule
updateSchedule(w, s) ==
    [day \in Days |->
        IF Len(s[day]) = 0 \/ ~isScheduleValid(s[day], w[getDayType(day)])
        THEN w[getDayType(day)]
        ELSE s[day]]

Swap(list, i, j) == [list EXCEPT ![i] = list[j], ![j] = list[i]]

\* Math.floor(Math.random() * i): position i is never left in place
RandomChoicesExclusive(n) == {js \in [2..n -> 1..n] : \A i \in 2..n : js[i] < i}

\* The values Math.floor(Math.random() * (i + 1)) can take in the loop of
\* randomizeDay over a list of n names: one j in 0..i for every i = n-1..1
\* (here 1-based: js[i] in 1..i for i = n..2).
RandomChoices(n) == {js \in [2..n -> 1..n] : \A i \in 2..n : js[i] <= i}

\* The Fisher-Yates loop of randomizeDay, from position i down to 2
RECURSIVE ShuffleFrom(_, _, _)
ShuffleFrom(list, i, js) ==
    IF i < 2 THEN list ELSE ShuffleFrom(Swap(list, i, js[i]), i - 1, js)

Shuffle(list, js) == ShuffleFrom(list, Len(list), js)

----------------------------------------------------------------------------
(* Persistence *)

\* the value saveData leaves under the key: JSON.stringify of the three fields
saveData(w, s, p) ==
    [kind |-> "doc", workouts |-> w, schedule |-> s, progress |-> p]

\* What the constructor and loadData make of the stored value `saved`:
\*   "missing"  getItem returns null: the default exercises, saved at once
\*   "corrupt"  JSON.parse (or reading a field of the parsed value) throws:
\*              the catch only logs, the fields keep the constructor's values
\*   "doc"      the three fields of the parsed document
loadData(saved) ==
    CASE saved.kind = "missing" ->
            [workouts |-> DefaultWorkouts, schedule |-> EmptySchedule,
             progress |-> <<>>,
             storage |-> saveData(DefaultWorkouts, EmptySchedule, <<>>)]
      [] saved.kind = "corrupt" ->
            [workouts |-> EmptyWorkouts, schedule |-> EmptySchedule,
             progress |-> <<>>, storage |-> saved]
      [] saved.kind = "doc" ->
            [workouts |-> saved.workouts, schedule |-> saved.schedule,
             progress |-> saved.progress, storage |-> saved]

\* what the key can hold before the application ever ran
FirstStorage == { [kind |-> "missing"], [kind |-> "corrupt"] }

----------------------------------------------------------------------------
(* Session *)

\* parseFloat(value) || 0
ParseWeight(raw) == IF raw = <<>> THEN 0 ELSE raw[1]
\* parseInt(value) || 0
ParseReps(raw) == IF raw = <<>> THEN 0 ELSE raw[1]

\* reps >= 0 in place of reps > 0
RECURSIVE CollectSetsAnyReps(_)
CollectSetsAnyReps(rows) ==
    IF rows = <<>> THEN <<>>
    ELSE LET reps == ParseReps(Head(rows).reps)
             rest == CollectSetsAnyReps(Tail(rows))
         IN  IF reps >= 0
             THEN <<[weight |-> ParseWeight(Head(rows).weight), reps |-> reps]>> \o rest
             ELSE rest

\* the sets completeWorkout keeps of one sets-<i> container
RECURSIVE CollectSets(_)
CollectSets(rows) ==
    IF rows = <<>> THEN <<>>
    ELSE LET reps == ParseReps(Head(rows).reps)
             rest == CollectSets(Tail(rows))
         IN  IF reps > 0
             THEN <<[weight |-> ParseWeight(Head(rows).weight), reps |-> reps]>> \o rest
             ELSE rest

\* workoutData.exercises of completeWorkout: for the names exercises[i..] in
\* turn, the entry of every name whose container holds a set with reps > 0
RECURSIVE CollectExercises(_, _, _)
CollectExercises(exercises, containers, i) ==
    IF i > Len(exercises) THEN <<>>
    ELSE LET sets == CollectSets(containers[i])
             rest == CollectExercises(exercises, containers, i + 1)
         IN  IF Len(sets) > 0
             THEN <<[name |-> exercises[i], sets |-> sets]>> \o rest
             ELSE rest

----------------------------------------------------------------------------
(* State after new WorkoutPlanner() *)

Init ==
    \E saved \in FirstStorage :
        LET l == loadData(saved)
        IN  /\ workouts = l.workouts
            /\ schedule = l.schedule
            /\ progress = l.progress
            /\ storage = l.storage
            /\ currentWorkoutDay = NoDay
            /\ currentWorkoutData = NoData
            /\ modalSets = <<>>
            /\ lastOp = "load"

----------------------------------------------------------------------------
(* Handlers *)

\* The page is loaded again: a new WorkoutPlanner over the stored value.
\* The modal of the new page is hidden and holds no exercise.
Reload ==
    LET l == loadData(storage)
    IN  /\ lastOp' = "load"
        /\ workouts' = l.workouts
        /\ schedule' = l.schedule
        /\ progress' = l.progress
        /\ storage' = l.storage
        /\ currentWorkoutDay' = NoDay
        /\ currentWorkoutData' = NoData
        /\ modalSets' = <<>>

\* addExercise(type) with `raw` in the input box
addExercise(type, raw) ==
    LET name == Trim(raw)
    IN  IF name # <<>> /\ ~Includes(workouts[type], name)
        THEN /\ lastOp' = "add"
             /\ workouts' = [workouts EXCEPT ![type] = Append(@, name)]
             /\ storage' = saveData(workouts', schedule, progress)
             /\ schedule' = updateSchedule(workouts', schedule)
             /\ UNCHANGED <<progress, session>>
        ELSE /\ lastOp' = "addRejected"
             /\ UNCHANGED <<mem, session, storage>>

\* removeExercise(type, index)
removeExercise(type, index) ==
    /\ lastOp' = "remove"
    /\ workouts' = [workouts EXCEPT ![type] = Splice1(@, index)]
    /\ storage' = saveData(workouts', schedule, progress)
    /\ schedule' = updateSchedule(workouts', schedule)
    /\ UNCHANGED <<progress, session>>

\* randomizeDay(day), js the values the random source returns
randomizeDay(day) ==
    LET exercises == workouts[getDayType(day)]
    IN  /\ lastOp' = "randomize"
        /\ \E js \in RandomChoices(Len(exercises)) :
                schedule' = [schedule EXCEPT ![day] = Shuffle(exercises, js)]
        /\ storage' = saveData(workouts, schedule', progress)
        /\ UNCHANGED <<workouts, progress, session>>

\* startWorkout(day), openModal included: one empty sets-<i> container per
\* exercise replaces what the modal held
startWorkout(day) ==
    LET exercises == schedule[day]
    IN  IF Len(exercises) = 0
        THEN /\ lastOp' = "startRejected"
             /\ UNCHANGED <<mem, session, storage>>
        ELSE /\ lastOp' = "start"
             /\ currentWorkoutDay' = day
             /\ currentWorkoutData' =
                    [i \in 1..Len(exercises) |-> [name |-> exercises[i], sets |-> <<>>]]
             /\ modalSets' = [i \in 1..Len(exercises) |-> <<>>]
             /\ UNCHANGED <<mem, storage>>

\* addSet(exerciseIndex, container) and the user's typing: a row is added to
\* container sets-<i> and its two inputs are left holding weight and reps
addSet(i, weight, reps) ==
    /\ lastOp' = "addSet"
    /\ i \in 1..Len(modalSets)
    /\ modalSets' = [modalSets EXCEPT ![i] = Append(@, [weight |-> weight, reps |-> reps])]
    /\ UNCHANGED <<mem, storage, currentWorkoutDay, currentWorkoutData>>

\* closeModal. The rows of the hidden modal stay in the document until the
\* next openModal empties it; no handler reads them while currentWorkoutDay is
\* null (completeWorkout throws at line 300), so they are dropped here.
closeModal ==
    /\ lastOp' = "close"
    /\ currentWorkoutDay' = NoDay
    /\ currentWorkoutData' = NoData
    /\ modalSets' = <<>>
    /\ UNCHANGED <<mem, storage>>

\* unshift in place of push
unshiftRecord(log, record) == <<record>> \o log

\* this.progress.push(workoutData)
pushRecord(log, record) == Append(log, record)

\* completeWorkout while a workout is open. The names come from the day's
\* schedule as it is now, the sets from the containers openModal made:
\*   - a name with no container (getElementById returns null) throws at
\*     line 304 before anything is assigned;
\*   - no name with a kept set: the alert of line 328, nothing changes;
\*   - otherwise the record is pushed, saved and the modal closed.
completeWorkout ==
    /\ currentWorkoutDay # NoDay
    /\ LET exercises == schedule[currentWorkoutDay]
       IN  IF Len(exercises) > Len(modalSets)
           THEN /\ lastOp' = "completeThrew"
                /\ UNCHANGED <<mem, session, storage>>
           ELSE LET logged == CollectExercises(exercises, modalSets, 1)
                IN  IF Len(logged) > 0
                    THEN /\ lastOp' = "complete"
                         /\ progress' = pushRecord(progress,
                                [day |-> currentWorkoutDay, exercises |-> logged])
                         /\ storage' = saveData(workouts, schedule, progress')
                         /\ currentWorkoutDay' = NoDay
                         /\ currentWorkoutData' = NoData
                         /\ modalSets' = <<>>
                         /\ UNCHANGED <<workouts, schedule>>
                    ELSE /\ lastOp' = "completeRejected"
                         /\ UNCHANGED <<mem, session, storage>>

----------------------------------------------------------------------------
(* Specifications *)

\* the days whose Randomize and Start buttons the session specifications use:
\* monday (push) and tuesday (pull, a category they never edit)
SessionDays == {"monday", "tuesday"}

Add == \E type \in EditTypes, raw \in RawNames :
            addExercise(type, raw) /\ Len(workouts'[type]) <= MaxLen
Remove == \E type \in EditTypes, index \in RemoveIndexes : removeExercise(type, index)
\* Delete on a list of at most MaxLen names: the five defaults stay as loaded
RemoveShort == \E type \in EditTypes, index \in RemoveIndexes :
                    Len(workouts[type]) <= MaxLen /\ removeExercise(type, index)
RandomizeAt(day) == Len(workouts[getDayType(day)]) <= MaxLen /\ randomizeDay(day)
Randomize == \E day \in Days : RandomizeAt(day)
RandomizeSession == \E day \in SessionDays : RandomizeAt(day)
Start == \E day \in SessionDays : startWorkout(day)
\* "+ Add Set" on one of the first MaxLen exercises of the modal
RecordSet == \E i \in 1..MaxLen, row \in RawRows :
                addSet(i, row.weight, row.reps) /\ Len(modalSets'[i]) <= MaxSets
Complete == completeWorkout /\ Len(progress') <= MaxProgress
Cancel == closeModal

\* The catalog and the schedule, from the first load on
Next ==
    \/ Add
    \/ Remove
    \/ Randomize

Spec == Init /\ [][Next]_vars

\* Workout sessions over a short catalog
NextSession ==
    \/ Add
    \/ RemoveShort
    \/ RandomizeSession
    \/ Start
    \/ RecordSet
    \/ Complete
    \/ Cancel

SpecSession == Init /\ [][NextSession]_vars

\* Page reloads between edits and workout starts
NextReload ==
    \/ Reload
    \/ Add
    \/ RemoveShort
    \/ RandomizeSession
    \/ Start
    \/ Cancel

SpecReload == Init /\ [][NextReload]_vars

----------------------------------------------------------------------------
(* Vocabulary of the properties *)

\* lists of at most MaxPerm names are compared with all their permutations
MaxPerm == 3

Range(list) == {list[i] : i \in 1..Len(list)}
Count(list, x) == Cardinality({i \in 1..Len(list) : list[i] = x})
SameMultiset(s, t) == \A x \in Range(s) \cup Range(t) : Count(s, x) = Count(t, x)
NoDuplicates(list) == \A i, j \in 1..Len(list) : list[i] = list[j] => i = j
IsPrefix(s, t) == Len(s) <= Len(t) /\ SubSeq(t, 1, Len(s)) = s

PermutationsOf(list) ==
    {[i \in 1..Len(list) |-> list[f[i]]] :
        f \in {g \in [1..Len(list) -> 1..Len(list)] :
                    \A i, j \in 1..Len(list) : g[i] = g[j] => i = j}}

\* an input that holds only whitespace
Blank(raw) == \A i \in 1..Len(raw) : raw[i] = " "
\* an input without the whitespace around it
Core(raw) ==
    IF Blank(raw) THEN <<>>
    ELSE LET ink == {i \in 1..Len(raw) : raw[i] # " "}
             first == CHOOSE i \in ink : \A k \in ink : i <= k
             last == CHOOSE i \in ink : \A k \in ink : k <= i
         IN  [i \in 1..(last - first + 1) |-> raw[first + i - 1]]

\* the document that holds exactly the in-memory state
InSync ==
    /\ storage.kind = "doc"
    /\ storage.workouts = workouts
    /\ storage.schedule = schedule
    /\ storage.progress = progress

\* no row of the modal holds a reps value above zero
NoValidSet ==
    \A i \in 1..Len(modalSets) : \A k \in 1..Len(modalSets[i]) :
        modalSets[i][k].reps = <<>> \/ modalSets[i][k].reps[1] <= 0

----------------------------------------------------------------------------
(* Properties *)

\* C1: after every mutating operation (add, remove, randomize, successful
\* complete) the stored document equals the in-memory catalog, schedule and
\* progress log.
C1_WriteThrough ==
    lastOp \in {"add", "remove", "randomize", "complete"} => InSync

\* C2: after an add or a remove, every day's schedule has the same multiset
\* of names as the catalog list of the day's category.
C2_SyncedAfterEdit ==
    lastOp \in {"add", "remove"} =>
        \A day \in Days : SameMultiset(schedule[day], workouts[getDayType(day)])

\* an edit has filled all six days of a schedule that was empty at load
C2_Witness ==
    /\ lastOp \in {"add", "remove"}
    /\ \A day \in Days : schedule[day] # <<>>

\* C3: whenever start(D) is invoked, Schedule[D] is a permutation of the
\* current Catalog[category(D)], also right after a load from storage.
C3_StartNeverStale ==
    [][\A day \in Days :
            startWorkout(day) =>
                SameMultiset(schedule[day], workouts[getDayType(day)])]_vars

\* C4: no category list ever holds a name twice; an add of a blank name or
\* of a name already in the list leaves the catalog as it was; any other add
\* appends the name, without the whitespace around it, at the end.
C4_NoDuplicates ==
    /\ [](\A type \in Types : NoDuplicates(workouts[type]))
    /\ [][\A type \in Types, raw \in RawNames :
            addExercise(type, raw) =>
                IF Blank(raw) \/ Core(raw) \in Range(workouts[type])
                THEN workouts' = workouts
                ELSE workouts' = [workouts EXCEPT ![type] = @ \o <<Core(raw)>>]]_vars

\* a name was appended behind a default exercise
C4_Witness ==
    /\ lastOp = "add"
    /\ Len(workouts["push"]) = 2
    /\ workouts["push"][1] \in Range(DefaultWorkouts["push"])
    /\ workouts["push"][2] = <<"a">>

\* C5: remove with an index outside 0..len-1 (negative, or len and above)
\* leaves the list unchanged; with an index inside it removes exactly that
\* position and keeps the order of the others.
C5_RemoveInRangeOnly ==
    [][\A type \in Types, index \in RemoveIndexes :
            removeExercise(type, index) =>
                LET list == workouts[type]
                IN  IF index < 0 \/ index >= Len(list)
                    THEN workouts'[type] = list
                    ELSE workouts'[type] =
                            SubSeq(list, 1, index) \o SubSeq(list, index + 2, Len(list))]_vars

\* C6: randomize(D) leaves a permutation of the catalog list in Schedule[D]
\* whatever the random source returns, and the results the random source can
\* produce for a list are exactly the permutations of the list.
C6_ShufflePermutes ==
    /\ [](\A type \in Types :
            Len(workouts[type]) <= MaxPerm =>
                {Shuffle(workouts[type], js) : js \in RandomChoices(Len(workouts[type]))}
                    = PermutationsOf(workouts[type]))
    /\ [][\A day \in Days :
            (lastOp' = "randomize" /\ RandomizeAt(day)) =>
                SameMultiset(schedule'[day], workouts[getDayType(day)])]_vars

\* randomize left an order that differs from the catalog's
C6_Witness ==
    /\ lastOp = "randomize"
    /\ Len(workouts["push"]) = 2
    /\ schedule["monday"] # workouts["push"]
    /\ SameMultiset(schedule["monday"], workouts["push"])

\* C7: every record of the progress log has at least one exercise entry,
\* every entry at least one set, every set reps > 0.
C7_NoEmptyRecord ==
    \A r \in 1..Len(progress) :
        /\ Len(progress[r].exercises) >= 1
        /\ \A e \in 1..Len(progress[r].exercises) :
            /\ Len(progress[r].exercises[e].sets) >= 1
            /\ \A k \in 1..Len(progress[r].exercises[e].sets) :
                    progress[r].exercises[e].sets[k].reps > 0

\* a workout over two exercises was completed with one of them dropped
C7_Witness ==
    /\ lastOp = "complete"
    /\ Len(progress) = 1
    /\ Len(progress[1].exercises) = 1
    /\ Len(schedule[progress[1].day]) = 2

\* C8: an add of a blank or duplicate name, a start on a day with an empty
\* schedule and a complete with no set of reps > 0 change neither the
\* catalog, the schedule, the log, the stored document nor the session.
C8_RejectedChangesNothing ==
    [][/\ lastOp' \in {"add", "addRejected"} =>
            \A type \in Types, raw \in RawNames :
                (addExercise(type, raw)
                    /\ (Blank(raw) \/ Core(raw) \in Range(workouts[type])))
                    => UNCHANGED <<mem, session, storage>>
       /\ \A day \in Days :
            (startWorkout(day) /\ schedule[day] = <<>>)
                => UNCHANGED <<mem, session, storage>>
       /\ (completeWorkout /\ NoValidSet)
                => (UNCHANGED <<mem, session, storage>> /\ currentWorkoutDay' # NoDay)]_vars

\* a complete was rejected on a modal that holds a row
C8_Witness ==
    /\ lastOp = "completeRejected"
    /\ currentWorkoutDay # NoDay
    /\ \E i \in 1..Len(modalSets) : Len(modalSets[i]) > 0

\* C9: a load of a corrupt document leaves the state a load of a missing key
\* leaves: the default catalog, an empty schedule, an empty log.
C9_CorruptLikeMissing ==
    (lastOp = "load" /\ storage.kind = "corrupt") =>
        /\ workouts = DefaultWorkouts
        /\ schedule = EmptySchedule
        /\ progress = <<>>

\* C10: every step leaves the old progress log as a prefix of the new one,
\* and only a successful complete makes it longer, by one record.
C10_AppendOnly ==
    [][/\ IsPrefix(progress, progress')
       /\ progress' # progress =>
            (completeWorkout /\ Len(progress') = Len(progress) + 1)]_vars

\* a second workout was appended to the log
C10_Witness ==
    /\ lastOp = "complete"
    /\ Len(progress) = 2

----------------------------------------------------------------------------
\* C11: at most one session exists at a time. The session becomes Active
\* (currentWorkoutDay set) only by a start and Idle again only by complete or
\* cancel, and a start invoked while a session is Active is rejected: the
\* active session keeps its day and its exercise list.
C11_OneSession ==
    [][ /\ (currentWorkoutDay = NoDay /\ currentWorkoutDay' # NoDay) =>
                lastOp' = "start"
        /\ (currentWorkoutDay # NoDay /\ currentWorkoutDay' = NoDay) =>
                lastOp' \in {"complete", "close"}
        /\ (currentWorkoutDay # NoDay /\ lastOp' \in {"start", "startRejected"}) =>
                /\ lastOp' = "startRejected"
                /\ UNCHANGED <<currentWorkoutDay, currentWorkoutData>> ]_vars

----------------------------------------------------------------------------
\* the names of the session's exercise list, as startWorkout recorded them
SessionNames == [i \in 1..Len(currentWorkoutData) |-> currentWorkoutData[i].name]

\* C12: a session is bound to the exercise list it was started with. The
\* record appended by complete attributes the sets buffered under index i to
\* the name that was at index i of Schedule[day] when start(day) ran, also
\* when Schedule[day] was changed between start and complete.
C12_BoundToStartList ==
    [][ lastOp' = "complete" =>
            /\ Len(progress') = Len(progress) + 1
            /\ progress'[Len(progress')].exercises
                    = CollectExercises(SessionNames, modalSets, 1) ]_vars

----------------------------------------------------------------------------
(* Edits of two categories *)

\* the categories whose Add and Delete buttons SpecSync uses
SyncTypes == {"push", "pull"}

AddSync == \E type \in SyncTypes, raw \in RawNames :
                addExercise(type, raw) /\ Len(workouts'[type]) <= MaxLen
RemoveSync == \E type \in SyncTypes, index \in RemoveIndexes :
                Len(workouts[type]) <= MaxLen /\ removeExercise(type, index)

\* Two short categories edited in turn, their days randomized in between
NextSync ==
    \/ AddSync
    \/ RemoveSync
    \/ RandomizeSession

SpecSync == Init /\ [][NextSync]_vars

\* the accepted edits of one category: the steps that run updateSchedule
EditOf(type) ==
    \/ \E raw \in RawNames : addExercise(type, raw)
    \/ \E index \in RemoveIndexes : removeExercise(type, index)

====
